---- MODULE Spec2Model ----
(***************************************************************************)
(* Model of app.py: the numeric normaliser br_to_float, the sector guesser *)
(* guess_setor and the line parser / aggregator parse_lince_lines.         *)
(* Strings are sequences of one-character strings.                         *)
(***************************************************************************)
EXTENDS Integers, Sequences, FiniteSets, TLC

VARIABLES txt, res, npc,
          stext, sfile, setor, spc,
          all_text, pos, ln_clean, m, produtos, df, pc

nvars == <<txt, res, npc>>
svars == <<stext, sfile, setor, spc>>
pvars == <<all_text, pos, ln_clean, m, produtos, df, pc>>
vars == <<txt, res, npc, stext, sfile, setor, spc, all_text, pos, ln_clean, m, produtos, df, pc>>

\* ---------------------------------------------------------------- bounds
MaxTokLen == 7

\* ------------------------------------------------------------ characters
\* the non-ASCII letters of the keyword and boilerplate lists: U+00C7/E7,
\* U+00CD/ED, U+00C3/E3, U+00C1/E1
CCedilha == "C-cedilha"
cCedilha == "c-cedilha"
IAgudo == "I-agudo"
iAgudo == "i-agudo"
ATil == "A-til"
aTil == "a-til"
AAgudo == "A-agudo"
aAgudo == "a-agudo"
DigitSeq == <<"0", "1", "2", "3", "4", "5", "6", "7", "8", "9">>
UpperSeq == <<"A", "B", "C", "D", "E", "F", "G", "H", "I", "J", "K", "L", "M",
              "N", "O", "P", "Q", "R", "S", "T", "U", "V", "W", "X", "Y", "Z",
              AAgudo, ATil, CCedilha, IAgudo>>
LowerSeq == <<"a", "b", "c", "d", "e", "f", "g", "h", "i", "j", "k", "l", "m",
              "n", "o", "p", "q", "r", "s", "t", "u", "v", "w", "x", "y", "z",
              aAgudo, aTil, cCedilha, iAgudo>>

Range(f) == {f[x] : x \in DOMAIN f}
Digits == Range(DigitSeq)
UpperLetters == Range(UpperSeq)
LowerLetters == Range(LowerSeq)
Letters == UpperLetters \cup LowerLetters
AsciiUpper == UpperLetters \ {AAgudo, ATil, CCedilha, IAgudo}
Whitespace == {" ", "\n"}

IndexOf(c, sq) == CHOOSE k \in DOMAIN sq : sq[k] = c

\* str.upper() / str.lower() on one character
UpperChar(c) == IF c \in LowerLetters THEN UpperSeq[IndexOf(c, LowerSeq)] ELSE c
LowerChar(c) == IF c \in UpperLetters THEN LowerSeq[IndexOf(c, UpperSeq)] ELSE c
Upper(s) == [k \in DOMAIN s |-> UpperChar(s[k])]
Lower(s) == [k \in DOMAIN s |-> LowerChar(s[k])]

\* ------------------------------------------------------- string helpers
Contains(s, c) == \E k \in DOMAIN s : s[k] = c

\* s.replace(c, "")
Delete(s, c) == SelectSeq(s, LAMBDA x : x # c)

\* s.replace(c, d) for single characters
Replace(s, c, d) == [k \in DOMAIN s |-> IF s[k] = c THEN d ELSE s[k]]

\* s.strip()
Strip(s) ==
  LET idx == {k \in DOMAIN s : s[k] \notin Whitespace}
  IN IF idx = {} THEN <<>>
     ELSE SubSeq(s, CHOOSE k \in idx : \A j \in idx : k <= j,
                    CHOOSE k \in idx : \A j \in idx : k >= j)

\* ------------------------------------------------------ decimal values
\* A float is kept as its exact decimal expansion: integer digits without
\* leading zeros and fraction digits without trailing zeros.
None == [ok |-> FALSE, int |-> <<>>, frac |-> <<>>]

RECURSIVE DropLeadingZeros(_)
DropLeadingZeros(d) ==
  IF d # <<>> /\ Head(d) = "0" THEN DropLeadingZeros(Tail(d)) ELSE d

RECURSIVE DropTrailingZeros(_)
DropTrailingZeros(d) ==
  IF d # <<>> /\ d[Len(d)] = "0" THEN DropTrailingZeros(SubSeq(d, 1, Len(d) - 1))
  ELSE d

Dec(i, f) == [ok |-> TRUE, int |-> DropLeadingZeros(i), frac |-> DropTrailingZeros(f)]

\* float(s) for strings over digits, ".", "," and blanks: optional digits,
\* at most one ".", at least one digit; anything else raises ValueError.
FloatOk(s) ==
  LET u == Strip(s)
      dots == {k \in DOMAIN u : u[k] = "."}
  IN /\ \A k \in DOMAIN u : u[k] \in Digits \cup {"."}
     /\ Cardinality(dots) <= 1
     /\ \E k \in DOMAIN u : u[k] \in Digits

Float(s) ==
  LET u == Strip(s)
      dots == {k \in DOMAIN u : u[k] = "."}
  IN IF dots = {} THEN Dec(u, <<>>)
     ELSE LET p == CHOOSE k \in dots : TRUE
          IN Dec(SubSeq(u, 1, p - 1), SubSeq(u, p + 1, Len(u)))

IsZero(v) == v.int = <<>> /\ v.frac = <<>>

\* variant: the BR branch forgets to strip the thousands dots
br_to_float_keepdots(t0) ==
  LET t == Strip(t0)
      tbr == Replace(t, ",", ".")
      tfb == IF Contains(t, ",") THEN tbr ELSE t
      t2 == Delete(tfb, ",")
  IN IF Contains(t, ",") /\ FloatOk(tbr) THEN Float(tbr)
     ELSE IF FloatOk(t2) THEN Float(t2)
     ELSE None

\* --------------------------------------------------------- br_to_float
br_to_float(t0) ==
  LET t == Strip(t0)
      tbr == Replace(Delete(t, "."), ",", ".")
      \* t is reassigned inside the BR branch, so the fallback sees tbr
      tfb == IF Contains(t, ",") THEN tbr ELSE t
      t2 == Delete(tfb, ",")
  IN IF Contains(t, ",") /\ FloatOk(tbr) THEN Float(tbr)
     ELSE IF FloatOk(t2) THEN Float(t2)
     ELSE None

\* ------------------------------------------------ numeric-token inputs
TokAlphabet == {"0", "1", ".", ","}

RECURSIVE StringsOver(_, _)
StringsOver(A, n) ==
  IF n = 0 THEN {<<>>}
  ELSE LET S == StringsOver(A, n - 1)
       IN S \cup {Append(s, c) : s \in {x \in S : Len(x) = n - 1}, c \in A}

SampleTokens ==
  { <<"1", ",", "2", "3", "4", ".", "5", "6">>,
    <<"1", ".", "2", "3", "4", ",", "5", "6">>,
    <<"1", "2", "3", "4", ".", "5", "6">>,
    <<"1", ",", "2", "3", "4", ",", "5", "6", "7">>,
    <<" ", "1", "2", ",", "5", "0", " ">> }

TokenInputs == StringsOver(TokAlphabet, MaxTokLen) \cup SampleTokens

NumInit ==
  /\ txt \in TokenInputs
  /\ res = None
  /\ npc = "call"
  /\ stext = <<>> /\ sfile = <<>> /\ setor = <<>> /\ spc = "idle"
  /\ all_text = <<>> /\ pos = 0 /\ ln_clean = <<>> /\ m = <<>> /\ produtos = <<>> /\ df = <<>> /\ pc = "idle"

Convert ==
  /\ npc = "call"
  /\ res' = br_to_float(txt)
  /\ npc' = "done"
  /\ UNCHANGED <<txt, svars, pvars>>

NumNext == Convert

NumSpec == NumInit /\ [][NumNext]_vars

\* ------------------------------------------------ numeric-token formats
AllDigits(s) == s # <<>> /\ \A k \in DOMAIN s : s[k] \in Digits

\* digit groups of three separated by sep, the first group of 1 to 3 digits
Grouped(s, sep) ==
  /\ s # <<>>
  /\ s[1] \in Digits
  /\ \A k \in DOMAIN s : IF (Len(s) - k + 1) % 4 = 0 THEN s[k] = sep
                         ELSE s[k] \in Digits

FirstPos(s, c) == CHOOSE k \in DOMAIN s : s[k] = c /\ \A j \in 1..(k - 1) : s[j] # c
Before(s, c) == SubSeq(s, 1, FirstPos(s, c) - 1)
After(s, c) == SubSeq(s, FirstPos(s, c) + 1, Len(s))

\* "1,234.56": comma-grouped integer part, a dot, decimals
IsEN(s) ==
  /\ Contains(s, ".") /\ Contains(s, ",")
  /\ Grouped(Before(s, "."), ",")
  /\ AllDigits(After(s, "."))

\* "1234.56": digits, a dot, decimals; no other separator
IsPlainDecimal(s) ==
  /\ Contains(s, ".")
  /\ AllDigits(Before(s, "."))
  /\ AllDigits(After(s, "."))

\* "1.234,56": dot-grouped integer part, one comma, decimals
IsBR(s) ==
  /\ Contains(s, ",")
  /\ Grouped(Before(s, ","), ".")
  /\ AllDigits(After(s, ","))

\* C1: once br_to_float has run on a token in EN format ("1,234.56") or on
\* a plain decimal ("1234.56"), the result is the number whose integer part
\* is the text before the dot with the commas dropped and whose decimals are
\* the text after the dot.
C1_ENFormat ==
  (npc = "done" /\ (IsEN(txt) \/ IsPlainDecimal(txt)))
    => res = Dec(Delete(Before(txt, "."), ","), After(txt, "."))

\* C2: once br_to_float has run on a token in BR format ("1.234,56"), the
\* result is the number whose integer part is the text before the comma with
\* every dot deleted and whose decimals are the text after the comma.
C2_BRFormat ==
  (npc = "done" /\ IsBR(txt))
    => res = Dec(Delete(Before(txt, ","), "."), After(txt, ","))

C2_Witness ==
  /\ npc = "done"
  /\ IsBR(txt)
  /\ Contains(txt, ".")
  /\ res = Dec(<<"1", "0", "0", "0">>, <<"1">>)

\* C9: when a token contains a comma and its BR-format parse fails, the
\* result is the parse of the token with all commas stripped, and the
\* failure value is returned only when that parse fails too.
C9_CommaFallback ==
  LET t == Strip(txt)
      stripped == Delete(t, ",")
  IN (npc = "done" /\ Contains(t, ",")
        /\ ~FloatOk(Replace(Delete(t, "."), ",", ".")))
       => res = IF FloatOk(stripped) THEN Float(stripped) ELSE None

\* ---------------------------------------------------------- guess_setor
MARKER == <<"d", "e", "p", "a", "r", "t", "a", "m", "e", "n", "t", "o", ":">>
LOOKAHEAD == 40
TAIL_LINES == 5
MIN_SETOR == 2
MAX_SETOR == 20
WINDOW_EXTRA == 2

KEYWORDS == << <<"F", "R", "I", "O", "S">>,
               <<"A", CCedilha, "O", "U", "G", "U", "E">>,
               <<"P", "A", "D", "A", "R", "I", "A">>,
               <<"H", "O", "R", "T", "I", "F", "R", "U", "T", "I">>,
               <<"B", "E", "B", "I", "D", "A", "S">>,
               <<"M", "E", "R", "C", "E", "A", "R", "I", "A">> >>

\* s[i..] starts with w (1-based i)
StartsAt(s, i, w) ==
  /\ i + Len(w) - 1 <= Len(s)
  /\ \A k \in DOMAIN w : s[i + k - 1] = w[k]

\* str.find / "in": 1-based position of the first occurrence of w, 0 if none
Find(s, w) ==
  LET hits == {i \in 1..Len(s) : StartsAt(s, i, w)}
  IN IF hits = {} THEN 0 ELSE CHOOSE i \in hits : \A j \in hits : i <= j

\* str.splitlines() with "\n" as the only line break
RECURSIVE SplitLines(_)
SplitLines(s) ==
  IF s = <<>> THEN <<>>
  ELSE IF ~Contains(s, "\n") THEN <<s>>
  ELSE <<Before(s, "\n")>> \o SplitLines(After(s, "\n"))

\* str.isupper(): no lower-case letter and at least one upper-case letter
IsUpperStr(s) ==
  /\ \A k \in DOMAIN s : s[k] \notin LowerLetters
  /\ \E k \in DOMAIN s : s[k] \in UpperLetters

\* re.search(r"Departamento:\s*([\s\S]{0,40})", text, re.IGNORECASE):
\* 0 when there is no match, otherwise m.end() + 1 (1-based index of the
\* first character after the whole match, lookahead group included)
MatchEnd(text) ==
  LET start == Find(Lower(text), MARKER)
      j == start + Len(MARKER)
      ws == {k \in j..Len(text) : \A x \in j..k : text[x] \in Whitespace}
      k0 == j + Cardinality(ws)
      avail == Len(text) - k0 + 1
  IN IF start = 0 THEN 0
     ELSE k0 + (IF avail < LOOKAHEAD THEN avail ELSE LOOKAHEAD)

Take(sq, n) == SubSeq(sq, 1, IF Len(sq) < n THEN Len(sq) ELSE n)

SetorCandidate(ln) ==
  LET t == Strip(ln)
  IN MIN_SETOR <= Len(t) /\ Len(t) <= MAX_SETOR /\ IsUpperStr(t)

\* the for loop over tail[:5]: the first accepted line, <<>> if none
FirstSetorLine(lns) ==
  LET ok == {k \in DOMAIN lns : SetorCandidate(lns[k])}
  IN IF ok = {} THEN <<>>
     ELSE Strip(lns[CHOOSE k \in ok : \A j \in ok : k <= j])

TextSetor(text) ==
  LET e == MatchEnd(text)
  IN IF e = 0 THEN <<>>
     ELSE FirstSetorLine(Take(SplitLines(SubSeq(text, e, Len(text))), TAIL_LINES))

\* os.path.basename
Basename(f) ==
  LET sl == {k \in DOMAIN f : f[k] = "/"}
  IN IF sl = {} THEN f
     ELSE SubSeq(f, (CHOOSE k \in sl : \A j \in sl : k >= j) + 1, Len(f))

\* re.sub(r"[^A-Z0-9]", "", s)
KeepAZ09(s) == SelectSeq(s, LAMBDA c : c \in AsciiUpper \cup Digits)

KeywordWindow(base_up, chave) ==
  LET start == Find(base_up, chave)
      e == start + Len(chave) + WINDOW_EXTRA - 1
  IN SubSeq(base_up, start, IF e > Len(base_up) THEN Len(base_up) ELSE e)

ND == <<"N", "/", "D">>

FileSetor(filename) ==
  LET base_up == Upper(Basename(filename))
      hit == {k \in DOMAIN KEYWORDS : Find(base_up, KEYWORDS[k]) # 0}
  IN IF hit = {} THEN ND
     ELSE KeepAZ09(KeywordWindow(base_up,
                     KEYWORDS[CHOOSE k \in hit : \A j \in hit : k <= j]))

guess_setor(text, filename) ==
  IF TextSetor(text) # <<>> THEN TextSetor(text) ELSE FileSetor(filename)


\* --------------------------------------------------- guess_setor inputs
MaxTextLines == 4

Repeat(c, n) == [k \in 1..n |-> c]

RECURSIVE Join(_, _)
Join(parts, sep) ==
  IF parts = <<>> THEN <<>>
  ELSE IF Len(parts) = 1 THEN parts[1]
  ELSE parts[1] \o sep \o Join(Tail(parts), sep)

SetorLinePool ==
  { <<"D", "e", "p", "a", "r", "t", "a", "m", "e", "n", "t", "o", ":">>,
    <<"D", "E", "P", "A", "R", "T", "A", "M", "E", "N", "T", "O", ":", " ">>,
    <<>>,
    <<"A", "C", "O", "U", "G", "U", "E">>,
    <<".", ".", ".">>,
    <<"F", "r", "i", "o", "s">>,
    Repeat("-", LOOKAHEAD + 1) }

SetorTexts ==
  {Join(ls, <<"\n">>) : ls \in UNION {[1..n -> SetorLinePool] : n \in 0..MaxTextLines}}

SetorFiles ==
  { <<"r", "e", "l", "a", "t", "o", "r", "i", "o", "_", "F", "R", "I", "O", "S", "3", ".", "p", "d", "f">>,
    <<"a", cCedilha, "o", "u", "g", "u", "e", "1", ".", "p", "d", "f">>,
    <<"b", "e", "b", "i", "d", "a", "s", "_", "f", "r", "i", "o", "s", ".", "p", "d", "f">>,
    <<"/", "f", "r", "i", "o", "s", "/", "p", "a", "d", "a", "r", "i", "a">>,
    <<"c", "u", "r", "v", "a", ".", "p", "d", "f">>,
    <<>> }

SetorInit ==
  /\ stext \in SetorTexts
  /\ sfile \in SetorFiles
  /\ setor = <<>>
  /\ spc = "call"
  /\ txt = <<>> /\ res = None /\ npc = "idle"
  /\ all_text = <<>> /\ pos = 0 /\ ln_clean = <<>> /\ m = <<>> /\ produtos = <<>> /\ df = <<>> /\ pc = "idle"

GuessSetor ==
  /\ spc = "call"
  /\ setor' = guess_setor(stext, sfile)
  /\ spc' = "done"
  /\ UNCHANGED <<stext, sfile, nvars, pvars>>

SetorNext == GuessSetor

SetorSpec == SetorInit /\ [][SetorNext]_vars

\* the lines that follow the line holding the first marker
LinesAfterMarker(text) ==
  LET start == Find(Lower(text), MARKER)
      ls == SplitLines(SubSeq(text, start + Len(MARKER), Len(text)))
  IN IF start = 0 \/ ls = <<>> THEN <<>> ELSE Take(Tail(ls), TAIL_LINES)

\* C3: when the text holds the marker "Departamento:" (any case) and one of
\* the next 5 lines after it has trimmed length 2..20 and is upper-case,
\* guess_setor returns the trimmed text of the first such line, whatever the
\* filename.
C3_TextSetor ==
  (spc = "done" /\ FirstSetorLine(LinesAfterMarker(stext)) # <<>>)
    => setor = FirstSetorLine(LinesAfterMarker(stext))

\* C4: when the text heuristic yields nothing, the result is "N/D" if no
\* keyword occurs in the upper-cased base filename, and otherwise the window
\* of keyword-length+2 characters at the first keyword in list order, with
\* every character that is not an upper-case letter or a digit removed.
C4_FileSetor ==
  LET base_up == Upper(Basename(sfile))
      hit == {k \in DOMAIN KEYWORDS : Find(base_up, KEYWORDS[k]) # 0}
      first == CHOOSE k \in hit : \A j \in hit : k <= j
      at == Find(base_up, KEYWORDS[first])
      last == at + Len(KEYWORDS[first]) + 1
      window == SubSeq(base_up, at, IF last > Len(base_up) THEN Len(base_up) ELSE last)
  IN (spc = "done" /\ TextSetor(stext) = <<>>)
       => setor = IF hit = {} THEN ND
                  ELSE SelectSeq(window, LAMBDA c : c \in UpperLetters \cup Digits)

\* ---------------------------------------------------- parse_lince_lines
EAN_MIN == 8
EAN_MAX == 13
CODE_MIN == 4
CODE_MAX == 8
MIN_LETTERS == 3

lixo ==
  { <<"C", "u", "r", "v", "a", " ", "A", "B", "C">>,
    <<"P", "e", "r", iAgudo, "o", "d", "o">>,
    <<"C", "S", "T">>,
    <<"E", "C", "F">>,
    <<"S", "i", "t", "u", "a", cCedilha, aTil, "o", " ", "T", "r", "i", "b", "u", "t", aAgudo, "r", "i", "a">>,
    <<"C", "l", "a", "s", "s", "i", "f", ".">>,
    <<"C", "o", "d", "i", "g", "o">>,
    <<"B", "a", "r", "r", "a", "s">>,
    <<"T", "o", "t", "a", "l", " ", "d", "o", " ", "D", "e", "p", "a", "r", "t", "a", "m", "e", "n", "t", "o">>,
    <<"T", "o", "t", "a", "l", " ", "G", "e", "r", "a", "l">>,
    <<"w", "w", "w", ".", "g", "r", "u", "p", "o", "t", "e", "c", "n", "o", "w", "e", "b", ".", "c", "o", "m", ".", "b", "r">> }

\* NUM_TOKEN = [0-9\.\,]+
IsNumToken(s) == s # <<>> /\ \A k \in DOMAIN s : s[k] \in Digits \cup {".", ","}

\* \w
IsWordChar(c) == c \in Letters \cup Digits \cup {"_"}

\* re.sub(r"\s{2,}", " ", ln): every run of two or more blanks becomes " "
RECURSIVE CollapseFrom(_, _)
CollapseFrom(s, k) ==
  IF k > Len(s) THEN <<>>
  ELSE IF s[k] \notin Whitespace THEN <<s[k]>> \o CollapseFrom(s, k + 1)
  ELSE LET run == {e \in k..Len(s) : \A x \in k..e : s[x] \in Whitespace}
           n == Cardinality(run)
       IN IF n = 1 THEN <<s[k]>> \o CollapseFrom(s, k + 1)
          ELSE <<" ">> \o CollapseFrom(s, k + n)

NormLine(ln) == Strip(CollapseFrom(ln, 1))

IsLixo(ln) == \E k \in lixo : Find(ln, k) # 0

\* length of the run of digits that ends the string
TrailingDigits(s) ==
  Cardinality({k \in DOMAIN s : \A x \in k..Len(s) : s[x] \in Digits})

\* re.sub(r"\b\d{lo,hi}\b\s*$", "", s) on a trimmed string: the final digit
\* run goes when its length is in lo..hi and a word boundary precedes it
StripTrailingRun(s, lo, hi) ==
  LET n == TrailingDigits(s)
      boundary == n = Len(s) \/ ~IsWordChar(s[Len(s) - n])
  IN IF lo <= n /\ n <= hi /\ boundary THEN SubSeq(s, 1, Len(s) - n) ELSE s

CleanLine(ln) ==
  Strip(StripTrailingRun(Strip(StripTrailingRun(ln, EAN_MIN, EAN_MAX)),
                         CODE_MIN, CODE_MAX))

\* the blank-separated fields of a trimmed, collapsed line
RECURSIVE SplitSp(_)
SplitSp(s) ==
  IF s = <<>> THEN <<>>
  ELSE IF ~Contains(s, " ") THEN <<s>>
  ELSE <<Before(s, " ")>> \o SplitSp(After(s, " "))

NoMatch == [matched |-> FALSE, nome |-> <<>>, preco |-> <<>>, qtd |-> <<>>,
            valor |-> <<>>]

\* variant: a greedy name group, which runs to the last such field
MatchLine_greedy(cleaned) ==
  LET f == SplitSp(cleaned)
      ks == {k \in 1..(Len(f) - 3) :
               IsNumToken(f[k + 1]) /\ IsNumToken(f[k + 2]) /\ IsNumToken(f[k + 3])}
      k0 == CHOOSE k \in ks : \A j \in ks : k >= j
  IN IF ks = {} THEN NoMatch
     ELSE [matched |-> TRUE, nome |-> Strip(Join(SubSeq(f, 1, k0), <<" ">>)),
           preco |-> f[k0 + 1], qtd |-> f[k0 + 2], valor |-> f[k0 + 3]]

\* patt.match(ln_clean): the lazy name group stops at the first field that
\* is followed by three numeric fields
MatchLine(cleaned) ==
  LET f == SplitSp(cleaned)
      ks == {k \in 1..(Len(f) - 3) :
               IsNumToken(f[k + 1]) /\ IsNumToken(f[k + 2]) /\ IsNumToken(f[k + 3])}
      k0 == CHOOSE k \in ks : \A j \in ks : k <= j
  IN IF ks = {} THEN NoMatch
     ELSE [matched |-> TRUE, nome |-> Strip(Join(SubSeq(f, 1, k0), <<" ">>)),
           preco |-> f[k0 + 1], qtd |-> f[k0 + 2], valor |-> f[k0 + 3]]

\* re.search(r"[A-Za-z...]{3,}", nome)
HasLetters(nome) ==
  \E k \in 1..(Len(nome) - MIN_LETTERS + 1) :
     \A x \in k..(k + MIN_LETTERS - 1) : nome[x] \in Letters

\* variant: "preco < 0" in place of "preco <= 0"
LeZero_strict(v) == FALSE

\* comparisons of a parsed float with 0 (tokens carry no sign)
LeZero(v) == IsZero(v)
LtZero(v) == FALSE

\* the sanity filters
Valid(c) ==
  LET preco == br_to_float(c.preco)
      qtd == br_to_float(c.qtd)
      val == br_to_float(c.valor)
  IN /\ ~(preco = None \/ LeZero(preco))
     /\ ~(val = None \/ LtZero(val))
     /\ ~(qtd = None \/ LtZero(qtd))
     /\ HasLetters(c.nome)

\* floats of the records as fixed-point integers
ScaleDigits == 4

RECURSIVE ToInt(_)
ToInt(d) ==
  IF d = <<>> THEN 0
  ELSE 10 * ToInt(SubSeq(d, 1, Len(d) - 1)) + (IndexOf(d[Len(d)], DigitSeq) - 1)

Fixed(v) ==
  LET fr == IF Len(v.frac) >= ScaleDigits THEN SubSeq(v.frac, 1, ScaleDigits)
            ELSE v.frac \o Repeat("0", ScaleDigits - Len(v.frac))
  IN ToInt(v.int \o fr)

Record(c) ==
  [nome |-> c.nome,
   preco_unit |-> Fixed(br_to_float(c.preco)),
   quantidade |-> Fixed(br_to_float(c.qtd)),
   valor |-> Fixed(br_to_float(c.valor))]

\* ---------------------------------------------------------- aggregation
\* code-point order of the characters used
CharOrder ==
  <<"\n", " ", ",", "-", ".", "/">> \o DigitSeq \o <<":">>
    \o SubSeq(UpperSeq, 1, 26) \o <<"_">> \o SubSeq(LowerSeq, 1, 26)
    \o SubSeq(UpperSeq, 27, 30) \o SubSeq(LowerSeq, 27, 30)

RECURSIVE StrLess(_, _)
StrLess(a, b) ==
  IF b = <<>> THEN FALSE
  ELSE IF a = <<>> THEN TRUE
  ELSE IF a[1] = b[1] THEN StrLess(Tail(a), Tail(b))
  ELSE IndexOf(a[1], CharOrder) < IndexOf(b[1], CharOrder)

RECURSIVE SortNames(_)
SortNames(S) ==
  IF S = {} THEN <<>>
  ELSE LET least == CHOOSE a \in S : \A b \in S \ {a} : StrLess(a, b)
       IN <<least>> \o SortNames(S \ {least})

\* variant: the aggregate keeps the last value of a name instead of the sum
SumField_last(recs, nome, fld) ==
  LET ids == {k \in DOMAIN recs : recs[k].nome = nome}
  IN IF ids = {} THEN 0
     ELSE recs[CHOOSE k \in ids : \A j \in ids : k >= j][fld]

RECURSIVE SumField(_, _, _)
SumField(recs, nome, fld) ==
  IF recs = <<>> THEN 0
  ELSE (IF Head(recs).nome = nome THEN Head(recs)[fld] ELSE 0)
         + SumField(Tail(recs), nome, fld)

CountName(recs, nome) == Cardinality({k \in DOMAIN recs : recs[k].nome = nome})

\* df.groupby("nome", as_index=False).agg(mean, sum, sum): one row per name,
\* rows in ascending name order; the mean is kept as sum / count
GroupBy(recs) ==
  LET names == SortNames({recs[k].nome : k \in DOMAIN recs})
  IN [k \in DOMAIN names |->
        [nome |-> names[k],
         preco_unit |-> [num |-> SumField(recs, names[k], "preco_unit"),
                         den |-> CountName(recs, names[k])],
         quantidade |-> SumField(recs, names[k], "quantidade"),
         valor |-> SumField(recs, names[k], "valor")]]

IndexPerms(n) == {f \in [1..n -> 1..n] : \A a, b \in 1..n : f[a] = f[b] => a = b}

\* variant: ascending=True
Descending_asc(rows) ==
  \A k \in 1..(Len(rows) - 1) : rows[k].valor <= rows[k + 1].valor

Descending(rows) ==
  \A k \in 1..(Len(rows) - 1) : rows[k].valor >= rows[k + 1].valor

\* .sort_values("valor", ascending=False).reset_index(drop=True) with the
\* default kind="quicksort", which is not a stable sort: every descending
\* arrangement of the rows is a possible result
SortValues(rows) ==
  {r \in {[k \in DOMAIN rows |-> rows[f[k]]] : f \in IndexPerms(Len(rows))} :
     Descending(r)}

\* ------------------------------------------------------ pipeline inputs
MaxLines == 3

FullRows ==
  { [fields |-> <<<<"A", "R", "R", "O", "Z">>, <<"B", "R", "A", "N", "C", "O">>, <<"5", "K", "G">>, <<"1", "2", ",", "5", "0">>, <<"3", ",", "0", "0", "0">>, <<"3", "7", ",", "5", "0">>>>,
     code |-> <<"1", "2", "3", "4", "5", "6">>, barcode |-> <<"7", "8", "9", "1", "2", "3", "4", "5", "6", "7", "8", "9", "0">>],
    [fields |-> <<<<"F", "E", "I", "J", "A", "O">>, <<"2", ",", "0", "0">>, <<"1", ",", "0", "0", "0">>, <<"3", "7", ",", "5", "0">>>>,
     code |-> <<"1", "2", "3", "4">>, barcode |-> <<"1", "2", "3", "4", "5", "6", "7", "8">>],
    [fields |-> <<<<"A", "R", "R", "O", "Z">>, <<"B", "R", "A", "N", "C", "O">>, <<"5", "K", "G">>, <<"1", "2", ",", "0", "0">>, <<"1", ",", "0", "0", "0">>, <<"1", "2", ",", "0", "0">>>>,
     code |-> <<"1", "2", "3", "4", "5", "6", "7", "8">>, barcode |-> <<"7", "8", "9", "1", "2", "3", "4", "5", "6", "7", "8", "9", "0">>],
    [fields |-> <<<<"C", "O", "C", "A">>, <<"2">>, <<"3", ",", "0", "0">>, <<"1", ",", "0", "0", "0">>, <<"3", ",", "0", "0">>>>,
     code |-> <<"1", "2", "3", "4", "5", "6">>, barcode |-> <<"7", "8", "9", "1", "2", "3", "4", "5", "6", "7", "8", "9", "0">>] }

PlainRows ==
  { [fields |-> <<<<"F", "E", "I", "J", "A", "O">>, <<"2", ",", "0", "0">>, <<"2", ",", "0", "0", "0">>, <<"4", ",", "0", "0">>>>],
    [fields |-> <<<<"A", "R", "R", "O", "Z">>, <<"1", "2", ",", "5", "0">>, <<"3", ",", "0", "0", "0">>, <<"1", "5", "0", "0">>>>],
    [fields |-> <<<<"A", "R", "R", "O", "Z">>, <<"5">>, <<"1", "2", ",", "5", "0">>, <<"3", ",", "0", "0", "0">>, <<"1", "5", "0", "0">>>>],
    [fields |-> <<<<"A", "R", "R", "O", "Z">>, <<"1", "2", ",", "5", "0">>, <<"3", ",", "0", "0", "0">>, <<"1", ",", "2", "3", "4", "5">>>>],
    [fields |-> <<<<"F", "E", "I", "J", "A", "O">>, <<"0", ",", "0", "0">>, <<"1", ",", "0", "0", "0">>, <<"0", ",", "0", "0">>>>],
    [fields |-> <<<<"F", "E", "I", "J", "A", "O">>, <<"1", ".", "2", ".", "3">>, <<"1", ",", "0", "0", "0">>, <<"2", ",", "0", "0">>>>],
    [fields |-> <<<<"A", "B">>, <<"1", ",", "0", "0">>, <<"1", ",", "0", "0", "0">>, <<"1", ",", "0", "0">>>>],
    [fields |-> <<<<"F", "E", "I", "J", "A", "O">>, <<"1", ",", "0", "0">>, <<",">>, <<"2", ",", "0", "0">>>>] }

RenderFull(r) == Join(r.fields \o <<r.code, r.barcode>>, <<" ">>)
RenderPlain(r) == Join(r.fields, <<" ">>)

OtherLines ==
  { <<"T", "o", "t", "a", "l", " ", "G", "e", "r", "a", "l", " ", "1", "0", ",", "0", "0", " ", "4", ",", "0", "0", "0", " ", "4", "9", ",", "5", "0">>,
    <<>>,
    <<"F", "E", "I", "J", "A", "O", " ", " ", "P", "R", "E", "T", "O">> }

LinePool ==
  {RenderFull(r) : r \in FullRows} \cup {RenderPlain(r) : r \in PlainRows}
    \cup OtherLines

\* ------------------------------------------------------------ the loop
\* one iteration of "for ln in lines" on a raw line
LineStep(raw) ==
  LET ln == NormLine(raw)
      cl == CleanLine(ln)
      c == MatchLine(cl)
  IN IF ln = <<>> \/ IsLixo(ln)
       THEN [kind |-> "skip", ln_clean |-> <<>>, m |-> NoMatch]
     ELSE IF ~c.matched THEN [kind |-> "nomatch", ln_clean |-> cl, m |-> c]
     ELSE IF ~Valid(c) THEN [kind |-> "drop", ln_clean |-> cl, m |-> c]
     ELSE [kind |-> "append", ln_clean |-> cl, m |-> c]

Steps == [raw \in LinePool |-> LineStep(raw)]

Init ==
  /\ all_text \in UNION {[1..n -> LinePool] : n \in 0..MaxLines}
  /\ pos = 0
  /\ ln_clean = <<>>
  /\ m = NoMatch
  /\ produtos = <<>>
  /\ df = <<>>
  /\ pc = "loop"
  /\ txt = <<>> /\ res = None /\ npc = "idle"
  /\ stext = <<>> /\ sfile = <<>> /\ setor = <<>> /\ spc = "idle"

\* "continue" on an empty or boilerplate line, before any match is tried
SkipLine ==
  /\ pc = "loop" /\ pos < Len(all_text)
  /\ Steps[all_text[pos + 1]].kind = "skip"
  /\ pos' = pos + 1
  /\ UNCHANGED <<all_text, ln_clean, m, produtos, df, pc, nvars, svars>>

\* "continue" when the pattern does not match
NoMatchLine ==
  /\ pc = "loop" /\ pos < Len(all_text)
  /\ Steps[all_text[pos + 1]].kind = "nomatch"
  /\ pos' = pos + 1
  /\ ln_clean' = Steps[all_text[pos + 1]].ln_clean
  /\ m' = Steps[all_text[pos + 1]].m
  /\ UNCHANGED <<all_text, produtos, df, pc, nvars, svars>>

\* "continue" in one of the sanity filters
DropLine ==
  /\ pc = "loop" /\ pos < Len(all_text)
  /\ Steps[all_text[pos + 1]].kind = "drop"
  /\ pos' = pos + 1
  /\ ln_clean' = Steps[all_text[pos + 1]].ln_clean
  /\ m' = Steps[all_text[pos + 1]].m
  /\ UNCHANGED <<all_text, produtos, df, pc, nvars, svars>>

\* produtos.append({...})
AppendLine ==
  /\ pc = "loop" /\ pos < Len(all_text)
  /\ Steps[all_text[pos + 1]].kind = "append"
  /\ pos' = pos + 1
  /\ ln_clean' = Steps[all_text[pos + 1]].ln_clean
  /\ m' = Steps[all_text[pos + 1]].m
  /\ produtos' = Append(produtos, Record(Steps[all_text[pos + 1]].m))
  /\ UNCHANGED <<all_text, df, pc, nvars, svars>>

\* "if df.empty: return df"
ReturnEmpty ==
  /\ pc = "loop" /\ pos = Len(all_text)
  /\ produtos = <<>>
  /\ df' = <<>>
  /\ pc' = "done"
  /\ UNCHANGED <<all_text, pos, ln_clean, m, produtos, nvars, svars>>

\* groupby / agg / sort_values / reset_index, then return
Aggregate ==
  /\ pc = "loop" /\ pos = Len(all_text)
  /\ produtos # <<>>
  /\ df' \in SortValues(GroupBy(produtos))
  /\ pc' = "done"
  /\ UNCHANGED <<all_text, pos, ln_clean, m, produtos, nvars, svars>>

Next == SkipLine \/ NoMatchLine \/ DropLine \/ AppendLine \/ ReturnEmpty \/ Aggregate

Spec == Init /\ [][Next]_vars

\* -------------------------------------------------- pipeline properties
ScenarioLine ==
  <<"A", "R", "R", "O", "Z", " ", "B", "R", "A", "N", "C", "O", " ", "5", "K", "G", " ", "1", "2", ",", "5", "0", " ", "3", ",", "0", "0", "0", " ", "3", "7", ",", "5", "0", " ", "1", "2", "3", "4", "5", "6", " ", "7", "8", "9", "1", "2", "3", "4", "5", "6", "7", "8", "9", "0">>
ScenarioName == <<"A", "R", "R", "O", "Z", " ", "B", "R", "A", "N", "C", "O", " ", "5", "K", "G">>

NumericField(s) == s # <<>> /\ \A k \in DOMAIN s : s[k] \in Digits \cup {".", ","}

\* C5: after the loop body has run on a line made of name fields, price,
\* quantity and value, a 4-8 digit code and an 8-13 digit barcode, the
\* cleaned line is the line without the two digit runs, the name is the
\* shortest prefix of fields followed by three numeric fields and the three
\* fields are price, quantity and value; the scenario line gives name
\* "ARROZ BRANCO 5KG" and the record 12.50 / 3.0 / 37.50.
C5_Extraction ==
  /\ \A r \in FullRows :
       (pos >= 1 /\ all_text[pos] = RenderFull(r)) =>
         LET f == r.fields
             ks == {k \in 1..(Len(f) - 3) : \A x \in 1..3 : NumericField(f[k + x])}
             k0 == CHOOSE k \in ks : \A j \in ks : k <= j
         IN /\ ln_clean = Join(f, <<" ">>)
            /\ m = [matched |-> TRUE, nome |-> Join(SubSeq(f, 1, k0), <<" ">>),
                    preco |-> f[k0 + 1], qtd |-> f[k0 + 2], valor |-> f[k0 + 3]]
  /\ (pos >= 1 /\ all_text[pos] = ScenarioLine) =>
       /\ produtos # <<>>
       /\ produtos[Len(produtos)] =
            [nome |-> ScenarioName,
             preco_unit |-> 125 * 10 ^ (ScaleDigits - 1),
             quantidade |-> 3 * 10 ^ ScaleDigits,
             valor |-> 375 * 10 ^ (ScaleDigits - 1)]

C5_Witness ==
  /\ pos >= 2
  /\ all_text[pos] = ScenarioLine
  /\ m.nome = ScenarioName
  /\ \E r \in FullRows : all_text[pos - 1] = RenderFull(r) /\ Len(r.fields) = 5
  /\ Len(produtos) = 2

RECURSIVE TotalOver(_, _, _)
TotalOver(recs, ids, fld) ==
  IF ids = {} THEN 0
  ELSE LET k == CHOOSE x \in ids : TRUE
       IN recs[k][fld] + TotalOver(recs, ids \ {k}, fld)

\* C6: the returned frame has exactly one row per distinct name among the
\* validated records, no two rows share a name, and each row's quantity and
\* value are the sums over the validated records of that name.
C6_Aggregation ==
  pc = "done" =>
    LET names == {produtos[k].nome : k \in DOMAIN produtos}
    IN /\ Len(df) = Cardinality(names)
       /\ {df[k].nome : k \in DOMAIN df} = names
       /\ \A a, b \in DOMAIN df : df[a].nome = df[b].nome => a = b
       /\ \A k \in DOMAIN df :
            LET ids == {x \in DOMAIN produtos : produtos[x].nome = df[k].nome}
            IN /\ df[k].quantidade = TotalOver(produtos, ids, "quantidade")
               /\ df[k].valor = TotalOver(produtos, ids, "valor")

C6_Witness ==
  /\ pc = "done"
  /\ Len(produtos) = 3
  /\ Len(df) = 2
  /\ \E k \in DOMAIN df : df[k].nome = ScenarioName
                            /\ df[k].valor = 495 * 10 ^ (ScaleDigits - 1)

\* index of the first validated record carrying a name
FirstSeen(nome) ==
  CHOOSE k \in DOMAIN produtos :
    produtos[k].nome = nome /\ \A j \in 1..(k - 1) : produtos[j].nome # nome

\* C7 as stated: the returned frame is non-increasing in value and rows of
\* equal value appear in the order in which their names first occur in the
\* text.
C7_StableDescending ==
  pc = "done" =>
    /\ \A k \in 1..(Len(df) - 1) : df[k].valor >= df[k + 1].valor
    /\ \A a, b \in DOMAIN df :
         (a < b /\ df[a].valor = df[b].valor)
           => FirstSeen(df[a].nome) < FirstSeen(df[b].nome)

\* C7 as amended: the returned frame is non-increasing in value (nothing is
\* promised about the order of rows of equal value).
C7_Descending ==
  pc = "done" => \A k \in 1..(Len(df) - 1) : df[k].valor >= df[k + 1].valor

C7_Witness ==
  /\ pc = "done"
  /\ Len(df) = 3
  /\ df[1].valor = df[2].valor
  /\ df[2].valor > df[3].valor
  /\ produtos[1].nome = df[3].nome

\* C8: a step on a line that matched the pattern appends a record exactly
\* when the price parses and is > 0, the value and the quantity parse (a
\* parsed token is never negative) and the name has 3 consecutive letters;
\* otherwise the records are left as they were and the loop goes on.
C8_Validation ==
  [][(pc = "loop" /\ pos' = pos + 1 /\ Steps[all_text[pos + 1]].m.matched) =>
       LET c == Steps[all_text[pos + 1]].m
           p == br_to_float(c.preco)
           n == br_to_float(c.qtd)
           v == br_to_float(c.valor)
           letters == \E k \in 1..(Len(c.nome) - 2) :
                         \A x \in k..(k + 2) : c.nome[x] \in Letters
           ok == /\ p.ok /\ ~(p.int = <<>> /\ p.frac = <<>>)
                 /\ v.ok /\ n.ok /\ letters
       IN /\ pc' = "loop"
          /\ ok => produtos' = Append(produtos,
                      [nome |-> c.nome, preco_unit |-> Fixed(p),
                       quantidade |-> Fixed(n), valor |-> Fixed(v)])
          /\ ~ok => produtos' = produtos]_vars

C8_Witness ==
  /\ pos = 3
  /\ Len(produtos) = 1
  /\ m.matched /\ IsZero(br_to_float(m.preco))
  /\ Steps[all_text[2]].m.matched /\ br_to_float(Steps[all_text[2]].m.preco) = None
  /\ produtos[1].nome = ScenarioName

\* C10: a step on a line that is exactly name fields, price, quantity and
\* value (no code, no barcode) keeps the whole line as the cleaned line, and
\* a record it appends carries the parse of the full last field as value.
C10_PlainLineKept ==
  [][\A r \in PlainRows :
       (pc = "loop" /\ pos' = pos + 1 /\ all_text[pos + 1] = RenderPlain(r)) =>
          /\ ln_clean' = RenderPlain(r)
          /\ produtos' # produtos =>
               produtos'[Len(produtos')].valor
                 = Fixed(br_to_float(r.fields[Len(r.fields)]))]_vars

====
